---- MODULE Spec2Model ----
(***************************************************************************)
(* Contact form with optional appointment booking (hadoku-contact-ui).     *)
(*                                                                         *)
(* The model covers the form orchestrator (ContactForm), the appointment   *)
(* picker (AppointmentPicker, TimeSlotPicker and the selector components)  *)
(* and the two API clients (live and mock).  One action stands for one     *)
(* event handler or one network/timer completion, together with the React  *)
(* effects that the handler's state updates trigger before the next event  *)
(* is processed (the picker's notify effect and its load effect).          *)
(*                                                                         *)
(* Strings are sequences of one-character strings.                         *)
(***************************************************************************)
EXTENDS Integers, Sequences, FiniteSets

\* ------------------------------------------------------------------ bounds

\* Largest number of slot fetches in flight at the same time.
MaxInflight == 2
\* Largest number of conflict-refresh timers pending at the same time.
MaxTimers == 1
\* Largest number of midnights the page stays open across.
MaxToday == 1

\* Longest name the visitor types in the specification of the field rules.
MaxNameLen == 2

\* Largest number of roots the host page creates.
MaxRoots == 3

\* ------------------------------------------------------------ input domains

\* null of the source for dates, platforms and error messages.
Null == "null"
\* null of the source for an AppointmentSlot.
NullSlot == <<>>
\* undefined of the source (FormErrors entries, appointment of the request).
Undefined == "undefined"

\* Days the calendar offers (tiles at or after tomorrow).
Days == {"day1", "day2"}
\* All tiles of the calendar: day0 is the day the page was opened on, day1 the
\* day after it, day2 the next.
CalendarDays == {"day0"} \cup Days
\* The local midnight that starts a day, in days since the page was opened.
DayNumber(date) == IF date = "day0" THEN 0 ELSE IF date = "day1" THEN 1 ELSE 2
\* TimeSlotDuration values offered by DurationSelector (a subset of 15|30|60).
DURATION_OPTIONS == {15, 30}
\* Platforms offered by MeetingPlatformSelector (a subset of the four).
PLATFORMS == {"jitsi", "discord"}

\* Values a visitor types into the fields.
ValidName == <<"a", "b">>
ValidEmail == <<"a", "@", "b", ".", "c">>
ValidMessage == <<"h", "e", "l", "l", "o", " ", "t", "h", "e", "r", "e">>
NameInputs == { <<>>, ValidName }
EmailInputs == { <<>>, ValidEmail }
MessageInputs == { <<>>, ValidMessage }
WebsiteInputs == { <<>>, <<"x">> }

\* Every text of at most n characters over the given characters.
RECURSIVE StringsUpTo(_, _)
StringsUpTo(chars, n) ==
    IF n = 0 THEN { <<>> }
    ELSE LET shorter == StringsUpTo(chars, n - 1)
         IN shorter \cup { Append(s, c) : s \in shorter, c \in chars }

\* Names typed into the name field: letters and blanks in every arrangement
\* (empty, blank only, padded on either side, blank in the middle).
NameStrings == StringsUpTo({"a", " "}, MaxNameLen)

\* ------------------------------------------------------------- validators

IsSpace(c) == c = " "

RECURSIVE TrimStart(_)
TrimStart(s) ==
    IF s # <<>> /\ IsSpace(Head(s)) THEN TrimStart(Tail(s)) ELSE s

RECURSIVE TrimEnd(_)
TrimEnd(s) ==
    IF s # <<>> /\ IsSpace(s[Len(s)]) THEN TrimEnd(SubSeq(s, 1, Len(s) - 1)) ELSE s

\* String.prototype.trim
Trim(s) == TrimEnd(TrimStart(s))

\* One or more characters, none of them white space or "@": [^\s@]+
NoSpaceAt(s) ==
    /\ Len(s) >= 1
    /\ \A i \in 1..Len(s) : ~IsSpace(s[i]) /\ s[i] # "@"

\* /^[^\s@]+@[^\s@]+\.[^\s@]+$/.test(value)
EmailPattern(s) ==
    \E i \in 1..Len(s) : \E j \in 1..Len(s) :
        /\ i < j
        /\ s[i] = "@"
        /\ s[j] = "."
        /\ NoSpaceAt(SubSeq(s, 1, i - 1))
        /\ NoSpaceAt(SubSeq(s, i + 1, j - 1))
        /\ NoSpaceAt(SubSeq(s, j + 1, Len(s)))

\* Mutant of validators_name: the lengths are taken without trimming.
validators_name_Untrimmed(value) ==
    IF value = <<>> \/ Len(value) = 0 THEN "Name is required"
    ELSE IF Len(value) < 2 THEN "Name must be at least 2 characters"
    ELSE Undefined

validators_name(value) ==
    IF value = <<>> \/ Len(Trim(value)) = 0 THEN "Name is required"
    ELSE IF Len(Trim(value)) < 2 THEN "Name must be at least 2 characters"
    ELSE Undefined

validators_email(value) ==
    IF value = <<>> \/ Len(Trim(value)) = 0 THEN "Email is required"
    ELSE IF ~EmailPattern(value) THEN "Please enter a valid email address"
    ELSE Undefined

validators_message(value) ==
    IF value = <<>> \/ Len(Trim(value)) = 0 THEN "Message is required"
    ELSE IF Len(Trim(value)) < 10 THEN "Message must be at least 10 characters"
    ELSE Undefined

\* ------------------------------------------------------------------ state

VARIABLES
    \* ContactForm (useState)
    formData,               \* [name, email, message, website]
    status,                 \* SubmitStatus
    errorMessage,           \* text of the error banner
    errors,                 \* FormErrors
    appointmentSelection,   \* the orchestrator's AppointmentSelection
    conflictError,          \* the "refreshing" conflict flag
    \* AppointmentPicker (useState)
    selectedDate,
    duration,
    availableSlots,         \* sequence of AppointmentSlot
    selectedSlot,
    meetingPlatform,
    loading,
    error,
    fetchFailure,           \* the error value loadSlots caught, while its message is shown
    \* host page (entry.tsx) and App
    roots,                  \* every root createRoot has returned, in order of creation
    elRoot,                 \* el.__root of each container: an index into roots, or 0
    prefersDark,            \* the browser's (prefers-color-scheme: dark) media query
    \* environment
    useMock,                \* shouldUseMockAPI(), fixed at start-up
    today,                  \* the local calendar day of the clock (new Date())
    inflight,               \* slot fetches awaiting their response: request -> count
    submitReq,              \* the submission awaiting its response, or NoReq
    timers,                 \* pending setTimeout callbacks of the conflict branch
    \* history
    slotsFor,               \* the fetch request whose settlement was applied last
    submitResult,           \* what the last submission call settled with
    submitResponse          \* the backend's answer to that call

formVars == <<formData, status, errorMessage, errors, appointmentSelection, conflictError>>
pickerVars == <<selectedDate, duration, availableSlots, selectedSlot, meetingPlatform,
                loading, error, fetchFailure>>
hostVars == <<roots, elRoot, prefersDark>>
envVars == <<roots, elRoot, prefersDark, useMock, today, inflight, submitReq, timers,
            slotsFor, submitResult, submitResponse>>
vars == <<formVars, pickerVars, envVars>>

\* ----------------------------------------------------------- data shapes

\* format(date, 'yyyy-MM-dd'): the calendar day as a date string.
format(date) == <<"yyyy-MM-dd", date>>

\* The arguments of one fetchAvailableSlots call.
FetchRequest(date, slotDuration) == [date |-> format(date), duration |-> slotDuration]

Requests == { FetchRequest(d, n) : d \in Days, n \in DURATION_OPTIONS }

NoRequest == [date |-> Null]

\* One AppointmentSlot of the response to request r: the k-th slot of that day.
\* The id is unique per (date, time, duration), like the mock's
\* slot-<date>-<hour>-<minute>-<duration>.
Slot(r, k, avail) ==
    [ id        |-> <<r.date, k, r.duration>>,
      startTime |-> <<r.date, k>>,
      endTime   |-> <<r.date, k, r.duration>>,
      available |-> avail ]

\* Slot lists a backend answers with, as <<k, available>> entries.
MockPatterns == { << <<1, TRUE>>, <<2, TRUE>> >>, << <<1, FALSE>>, <<2, TRUE>> >> }
LivePatterns == MockPatterns \cup { <<>>, << <<2, TRUE>> >> }

SlotList(r, pattern) ==
    [ i \in 1..Len(pattern) |-> Slot(r, pattern[i][1], pattern[i][2]) ]

RECURSIVE SumOver(_, _)
SumOver(f, S) ==
    IF S = {} THEN 0
    ELSE LET x == CHOOSE y \in S : TRUE IN f[x] + SumOver(f, S \ {x})

InflightCount == SumOver(inflight, Requests)

NoReq == [sent |-> FALSE]
NoResult == [kind |-> "none"]

\* ----------------------------------------------- API clients: shared parts

\* fetch() itself failed: there is no HTTP response.
NoResponse == [ status |-> 0 ]

\* A response body that response.json() cannot parse.
NotJson == [ unparsed |-> TRUE ]

\* No submission has settled yet / the mock answered (no HTTP response).
NoAnswer == [ answered |-> FALSE ]
MockAnswer == [ mock |-> TRUE ]

\* response.ok
ok(response) == response.status \in 200..299

\* a || b || c on optional texts
OrElse(a, b) == IF a # Undefined /\ a # "" THEN a ELSE b

\* new AppointmentAPIError(type, message, retryable, updatedSlots), thrown
Rejected(type, message, retryable, hasUpdatedSlots) ==
    [ kind |-> "rejected", type |-> type, message |-> message, retryable |-> retryable,
      hasUpdatedSlots |-> hasUpdatedSlots ]

\* a response body, returned
Fulfilled(data) == [ kind |-> "fulfilled", data |-> data ]

\* No error value is held.
NoFailure == [ kind |-> "none" ]

\* What the live backend may answer to a slot request without delivering a
\* slot list: an error status with or without a JSON body, a 200 whose body is
\* not JSON, or no response at all.
FetchErrorResponses ==
    { [ status |-> 429, statusText |-> "Too Many Requests", data |-> NotJson ],
      [ status |-> 500, statusText |-> "Internal Server Error",
        data |-> [ message |-> "Calendar unavailable" ] ],
      [ status |-> 500, statusText |-> "Internal Server Error", data |-> NotJson ],
      [ status |-> 200, statusText |-> "OK", data |-> NotJson ],
      NoResponse }

\* fetchAvailableSlots on the live backend: what the call settles with.
fetchAvailableSlots(response) ==
    IF response = NoResponse
    THEN Rejected("network", "Network error. Please check your connection and try again.",
                  TRUE, FALSE)
    ELSE IF ~ok(response)
    THEN IF response.status = 429
         THEN Rejected("rate_limit", "Too many requests. Please try again later.", TRUE, FALSE)
         ELSE Rejected("network",
                       OrElse(IF response.data = NotJson THEN Undefined
                              ELSE response.data.message,
                              "Failed to fetch slots: " \o response.statusText),
                       TRUE, FALSE)
    ELSE IF response.data = NotJson
    THEN Rejected("network", "Network error. Please check your connection and try again.",
                  TRUE, FALSE)
    ELSE Fulfilled(response.data)

\* ------------------------------------------------------------- host page

\* Container elements of the host page.
Els == {"el1", "el2"}

\* createRoot(el) with <App/> rendered into it: the root is attached to its
\* container, App's media-query effect has subscribed its handler, and
\* isDarkTheme starts at the media query's current value.
NewRoot(el, dark) ==
    [ el |-> el, attached |-> TRUE, listening |-> TRUE, isDarkTheme |-> dark ]

\* ------------------------------------------------------------------- Init

Init ==
    /\ formData = [name |-> <<>>, email |-> <<>>, message |-> <<>>, website |-> <<>>]
    /\ status = "idle"
    /\ errorMessage = ""
    /\ errors = [name |-> Undefined, email |-> Undefined, message |-> Undefined,
                 appointment |-> Undefined]
    \* after mount the picker's notify effect has run once
    /\ appointmentSelection = [date |-> Null, duration |-> 15, selectedSlot |-> NullSlot,
                               meetingPlatform |-> "jitsi"]
    /\ conflictError = FALSE
    /\ selectedDate = Null
    /\ duration = 15
    /\ availableSlots = <<>>
    /\ selectedSlot = NullSlot
    /\ meetingPlatform = "jitsi"
    /\ loading = FALSE
    /\ error = Null
    /\ fetchFailure = NoFailure
    /\ roots = << NewRoot("el1", FALSE) >>
    /\ elRoot = [el \in Els |-> IF el = "el1" THEN 1 ELSE 0]
    /\ prefersDark = FALSE
    /\ useMock \in BOOLEAN
    /\ today = 0
    /\ inflight = [r \in Requests |-> 0]
    /\ submitReq = NoReq
    /\ timers = 0
    /\ slotsFor = NoRequest
    /\ submitResult = NoResult
    /\ submitResponse = NoAnswer

\* ------------------------------------------------------ AppointmentPicker

\* disabled={status === 'submitting'}
disabled == status = "submitting"

\* The picker's own AppointmentSelection, as its notify effect reports it.
PickerSelection ==
    [ date |-> selectedDate, duration |-> duration, selectedSlot |-> selectedSlot,
      meetingPlatform |-> meetingPlatform ]

\* useEffect(() => onAppointmentChange({...}), [selectedDate, duration,
\* selectedSlot, meetingPlatform]): runs after a render in which one of the four changed.
NotifyParent ==
    appointmentSelection' = PickerSelection'

\* Mutant of LoadSlotsStart: the request is sent without turning loading on.
LoadSlotsStart_Silent(date, slotDuration) ==
    /\ InflightCount < MaxInflight
    /\ UNCHANGED loading
    /\ error' = Null
    /\ fetchFailure' = NoFailure
    /\ inflight' = [inflight EXCEPT ![FetchRequest(date, slotDuration)] = @ + 1]

\* loadSlots up to its await: loading on, error cleared, the request sent.
LoadSlotsStart(date, slotDuration) ==
    /\ InflightCount < MaxInflight
    /\ loading' = TRUE
    /\ error' = Null
    /\ fetchFailure' = NoFailure
    /\ inflight' = [inflight EXCEPT ![FetchRequest(date, slotDuration)] = @ + 1]

\* setSelectedSlot(prev => ...) of loadSlots: keep prev only if the response
\* still lists its id as available.
StillAvailable(prev, slots) ==
    IF prev # NullSlot
    THEN IF \E i \in 1..Len(slots) : slots[i].id = prev.id /\ slots[i].available
         THEN prev ELSE NullSlot
    ELSE NullSlot

\* getTomorrowDate(): local midnight of the day after the clock's day.
getTomorrowDate == today + 1

\* tileDisabled({ date }), which is also what minDate = getTomorrowDate() excludes.
tileDisabled(date) == DayNumber(date) < getTomorrowDate

\* A click on a calendar tile that is not disabled ->
\* AppointmentCalendar.handleDateChange -> AppointmentPicker.handleDateChange,
\* then the notify effect and the load effect (the calendar hands over a new
\* Date object, so both effects run even for the day already selected).
DateChange(date) ==
    /\ ~disabled
    /\ ~tileDisabled(date)
    /\ selectedDate' = date
    /\ selectedSlot' = NullSlot
    /\ LoadSlotsStart(date, duration)
    /\ UNCHANGED <<duration, availableSlots, meetingPlatform>>
    /\ UNCHANGED <<formData, status, errorMessage, errors, conflictError>>
    /\ UNCHANGED <<roots, elRoot, prefersDark, useMock, today, submitReq, timers, slotsFor, submitResult, submitResponse>>
    /\ NotifyParent

\* DurationSelector button -> handleDurationChange, then the effects.  The load
\* effect runs only when the duration value changed.
DurationChange(newDuration) ==
    /\ ~disabled
    /\ duration' = newDuration
    /\ selectedSlot' = NullSlot
    /\ IF newDuration # duration /\ selectedDate # Null
       THEN /\ LoadSlotsStart(selectedDate, newDuration)
            /\ UNCHANGED availableSlots
       ELSE /\ availableSlots' = (IF newDuration # duration THEN <<>> ELSE availableSlots)
            /\ UNCHANGED <<loading, error, fetchFailure, inflight>>
    /\ UNCHANGED <<selectedDate, meetingPlatform>>
    /\ UNCHANGED <<formData, status, errorMessage, errors, conflictError>>
    /\ UNCHANGED <<roots, elRoot, prefersDark, useMock, today, submitReq, timers, slotsFor, submitResult, submitResponse>>
    /\ IF newDuration # duration \/ selectedSlot # NullSlot
       THEN NotifyParent
       ELSE UNCHANGED appointmentSelection

\* MeetingPlatformSelector button -> setMeetingPlatform, then the notify effect.
PlatformChange(platform) ==
    /\ ~disabled
    /\ meetingPlatform' = platform
    /\ UNCHANGED <<selectedDate, duration, availableSlots, selectedSlot, loading, error, fetchFailure>>
    /\ UNCHANGED <<formData, status, errorMessage, errors, conflictError>>
    /\ UNCHANGED envVars
    /\ IF platform # meetingPlatform
       THEN NotifyParent
       ELSE UNCHANGED appointmentSelection

\* Mutant of handleSlotSelect: a click always selects the clicked slot.
handleSlotSelect_NoToggle(current, slot) == slot

\* handleSlotSelect: clicking the selected slot again unselects it.
handleSlotSelect(current, slot) ==
    IF current # NullSlot /\ current.id = slot.id THEN NullSlot ELSE slot

\* The slot buttons are rendered only when a date is chosen and the picker is
\* neither loading nor showing an error.
SlotsShown == selectedDate # Null /\ ~loading /\ error = Null

\* Mutant of SlotClickResult: a click selects the slot whether it is available or not.
SlotClickResult_Any(current, slot) == handleSlotSelect(current, slot)

\* onClick={() => slot.available && onSlotSelect(slot)}
SlotClickResult(current, slot) ==
    IF slot.available THEN handleSlotSelect(current, slot) ELSE current

\* A click on the i-th slot button of TimeSlotPicker, then the notify effect.
SlotClick(i) ==
    /\ SlotsShown
    /\ i \in 1..Len(availableSlots)
    /\ selectedSlot' = SlotClickResult(selectedSlot, availableSlots[i])
    /\ UNCHANGED <<selectedDate, duration, availableSlots, meetingPlatform, loading, error, fetchFailure>>
    /\ UNCHANGED <<formData, status, errorMessage, errors, conflictError>>
    /\ UNCHANGED envVars
    /\ IF selectedSlot' # selectedSlot
       THEN NotifyParent
       ELSE UNCHANGED appointmentSelection

\* Mutant of ClearAppointment: the platform is put back to its default as well.
ClearAppointment_ResetsPlatform ==
    /\ selectedSlot # NullSlot
    /\ meetingPlatform # Null
    /\ ~disabled
    /\ selectedSlot' = NullSlot
    /\ meetingPlatform' = "jitsi"
    /\ UNCHANGED <<selectedDate, duration, availableSlots, loading, error, fetchFailure>>
    /\ UNCHANGED <<formData, status, errorMessage, errors, conflictError>>
    /\ UNCHANGED envVars
    /\ NotifyParent

\* The clear button of the summary -> handleClearAppointment, then the notify effect.
ClearAppointment ==
    /\ selectedSlot # NullSlot
    /\ meetingPlatform # Null
    /\ ~disabled
    /\ selectedSlot' = NullSlot
    /\ UNCHANGED <<selectedDate, duration, availableSlots, meetingPlatform, loading, error, fetchFailure>>
    /\ UNCHANGED <<formData, status, errorMessage, errors, conflictError>>
    /\ UNCHANGED envVars
    /\ NotifyParent

\* loadSlots after its await, the fetch fulfilled with a slot list.  The response
\* is applied whatever the picker's date and duration are by then.
FetchFulfilled(r, pattern) ==
    /\ inflight[r] > 0
    /\ useMock => pattern \in MockPatterns
    /\ inflight' = [inflight EXCEPT ![r] = @ - 1]
    /\ availableSlots' = SlotList(r, pattern)
    /\ selectedSlot' = StillAvailable(selectedSlot, SlotList(r, pattern))
    /\ slotsFor' = r
    /\ loading' = FALSE
    /\ UNCHANGED <<selectedDate, duration, meetingPlatform, error, fetchFailure>>
    /\ UNCHANGED <<formData, status, errorMessage, errors, conflictError>>
    /\ UNCHANGED <<roots, elRoot, prefersDark, useMock, today, submitReq, timers, submitResult, submitResponse>>
    /\ IF selectedSlot' # selectedSlot
       THEN NotifyParent
       ELSE UNCHANGED appointmentSelection

\* The AppointmentAPIError values fetchAvailableSlots throws.
FetchFailures ==
    { fetchAvailableSlots(response) : response \in FetchErrorResponses }

\* Mutant of FetchRejected: the failure is shown but the slot list and the
\* selected slot are kept.
FetchRejected_KeepsSlots(r, failure) ==
    /\ ~useMock
    /\ inflight[r] > 0
    /\ failure \in FetchFailures
    /\ inflight' = [inflight EXCEPT ![r] = @ - 1]
    /\ error' = failure.message
    /\ fetchFailure' = failure
    /\ slotsFor' = r
    /\ loading' = FALSE
    /\ UNCHANGED <<selectedDate, duration, meetingPlatform, availableSlots, selectedSlot>>
    /\ UNCHANGED <<formData, status, errorMessage, errors, conflictError, appointmentSelection>>
    /\ UNCHANGED <<roots, elRoot, prefersDark, useMock, today, submitReq, timers, submitResult, submitResponse>>

\* loadSlots after its await, the fetch rejected (live client only: the mock
\* never rejects).
FetchRejected(r, failure) ==
    /\ ~useMock
    /\ inflight[r] > 0
    /\ failure \in FetchFailures
    /\ inflight' = [inflight EXCEPT ![r] = @ - 1]
    /\ error' = failure.message
    /\ fetchFailure' = failure
    /\ availableSlots' = <<>>
    /\ selectedSlot' = NullSlot
    /\ slotsFor' = r
    /\ loading' = FALSE
    /\ UNCHANGED <<selectedDate, duration, meetingPlatform>>
    /\ UNCHANGED <<formData, status, errorMessage, errors, conflictError>>
    /\ UNCHANGED <<roots, elRoot, prefersDark, useMock, today, submitReq, timers, submitResult, submitResponse>>
    /\ IF selectedSlot # NullSlot
       THEN NotifyParent
       ELSE UNCHANGED appointmentSelection

\* The clock passes local midnight while the page is open.  Nothing of the page's
\* state changes.
Midnight ==
    /\ today < MaxToday
    /\ today' = today + 1
    /\ UNCHANGED <<formVars, pickerVars>>
    /\ UNCHANGED <<roots, elRoot, prefersDark, useMock, inflight, submitReq, timers, slotsFor, submitResult, submitResponse>>

\* Mutant of refreshSlots: the refresh is dropped.
refreshSlots_Nothing == UNCHANGED <<loading, error, fetchFailure, inflight>>

\* refreshSlots, called through the ref by the orchestrator.
refreshSlots ==
    IF selectedDate # Null
    THEN LoadSlotsStart(selectedDate, duration)
    ELSE UNCHANGED <<loading, error, fetchFailure, inflight>>

\* ------------------------------------------------------------ ContactForm

NoErrors ==
    [name |-> Undefined, email |-> Undefined, message |-> Undefined,
     appointment |-> Undefined]

\* Mutant of AppointmentError: the platform rule is dropped.
AppointmentError_DateRuleOnly(sel) ==
    IF sel.date # Null /\ sel.selectedSlot = NullSlot
    THEN "Please select a time slot or clear the date selection"
    ELSE Undefined

\* The appointment entry validateForm computes.
AppointmentError(sel) ==
    IF sel.selectedSlot # NullSlot /\ sel.meetingPlatform = Null
    THEN "Please select a meeting platform"
    ELSE IF sel.date # Null /\ sel.selectedSlot = NullSlot
    THEN "Please select a time slot or clear the date selection"
    ELSE Undefined

\* newErrors of validateForm.
validateFormErrors(fd, sel) ==
    [ name        |-> validators_name(fd.name),
      email       |-> validators_email(fd.email),
      message     |-> validators_message(fd.message),
      appointment |-> AppointmentError(sel) ]

\* Mutant of validateForm: only the three fields are validated.
validateForm_FieldsOnly(fd, sel) ==
    /\ validators_name(fd.name) = Undefined
    /\ validators_email(fd.email) = Undefined
    /\ validators_message(fd.message) = Undefined

\* The value validateForm returns: Object.keys(newErrors).length === 0.
validateForm(fd, sel) == validateFormErrors(fd, sel) = NoErrors

\* Mutant of isFormValid: the form counts as valid while no error is displayed.
isFormValid_NoErrorShown(fd, sel) == errors = NoErrors

isFormValid(fd, sel) ==
    /\ validators_name(fd.name) = Undefined
    /\ validators_email(fd.email) = Undefined
    /\ validators_message(fd.message) = Undefined
    /\ ~(sel.selectedSlot # NullSlot /\ sel.meetingPlatform = Null)

\* Mutant of SubmitDisabled: the button is disabled by validity only.
SubmitDisabled_ValidityOnly == ~isFormValid(formData, appointmentSelection)

\* disabled={status === 'submitting' || !isFormValid()}
SubmitDisabled == status = "submitting" \/ ~isFormValid(formData, appointmentSelection)

\* appointment: undefined
NoAppointment == [ absent |-> TRUE ]

\* The appointment descriptor handleSubmit builds, or undefined.
BuildAppointment(sel) ==
    IF sel.selectedSlot # NullSlot /\ sel.date # Null /\ sel.meetingPlatform # Null
    THEN [ slotId    |-> sel.selectedSlot.id,
           date      |-> format(sel.date),
           startTime |-> sel.selectedSlot.startTime,
           endTime   |-> sel.selectedSlot.endTime,
           duration  |-> sel.duration,
           platform  |-> sel.meetingPlatform ]
    ELSE NoAppointment

\* Mutant of BuildRequest: the honeypot field is left out of the payload.
BuildRequest_NoHoneypot(fd, sel) ==
    [ sent |-> TRUE, name |-> fd.name, email |-> fd.email, message |-> fd.message,
      website |-> <<>>, appointment |-> BuildAppointment(sel) ]

\* { ...formData, appointment }
BuildRequest(fd, sel) ==
    [ sent |-> TRUE, name |-> fd.name, email |-> fd.email, message |-> fd.message,
      website |-> fd.website, appointment |-> BuildAppointment(sel) ]

\* handleChange: the field takes the typed value and its displayed error clears.
handleChange(field, value) ==
    /\ formData' = [formData EXCEPT ![field] = value]
    /\ errors' = IF field \in DOMAIN errors /\ errors[field] # Undefined
                 THEN [errors EXCEPT ![field] = Undefined]
                 ELSE errors
    /\ UNCHANGED <<status, errorMessage, appointmentSelection, conflictError>>
    /\ UNCHANGED pickerVars
    /\ UNCHANGED envVars

TypeName(value) == handleChange("name", value)
TypeEmail(value) == handleChange("email", value)
TypeMessage(value) == handleChange("message", value)
TypeWebsite(value) == handleChange("website", value)

\* validators[name](value) of handleBlur.
FieldError(field, value) ==
    IF field = "name" THEN validators_name(value)
    ELSE IF field = "email" THEN validators_email(value)
    ELSE validators_message(value)

\* handleBlur: the field that lost focus is validated.
handleBlur(field) ==
    /\ field \in {"name", "email", "message"}
    /\ errors' = [errors EXCEPT ![field] = FieldError(field, formData[field])]
    /\ UNCHANGED <<formData, status, errorMessage, appointmentSelection, conflictError>>
    /\ UNCHANGED pickerVars
    /\ UNCHANGED envVars

\* onMouseEnter of the submit button.
HoverSubmit ==
    /\ ~isFormValid(formData, appointmentSelection)
    /\ status # "submitting"
    /\ errors' = validateFormErrors(formData, appointmentSelection)
    /\ UNCHANGED <<formData, status, errorMessage, appointmentSelection, conflictError>>
    /\ UNCHANGED pickerVars
    /\ UNCHANGED envVars

\* handleSubmit up to its await.  The form is submitted through its submit
\* button, which the browser lets act only while it is enabled.
handleSubmit ==
    /\ ~SubmitDisabled
    /\ errors' = validateFormErrors(formData, appointmentSelection)
    /\ IF validateForm(formData, appointmentSelection)
       THEN /\ status' = "submitting"
            /\ errorMessage' = ""
            /\ conflictError' = FALSE
            /\ submitReq' = BuildRequest(formData, appointmentSelection)
       ELSE UNCHANGED <<status, errorMessage, conflictError, submitReq>>
    /\ UNCHANGED <<formData, appointmentSelection>>
    /\ UNCHANGED pickerVars
    /\ UNCHANGED <<roots, elRoot, prefersDark, useMock, today, inflight, timers, slotsFor, submitResult, submitResponse>>

\* -------------------------------------------------------------- API clients

\* conflict: undefined
NoConflict == [ absent |-> TRUE ]

\* A SubmitContactResponse body.  message and error are Undefined or a text,
\* errors is a sequence of texts (empty when the body has none).
Data(success, message, err, errs, conflict) ==
    [ success |-> success, message |-> message, error |-> err, errors |-> errs,
      conflict |-> conflict ]

\* What the live backend may answer: an HTTP status with a JSON body, or no
\* usable answer at all (the request failed, or the body is not JSON).
HttpResponses ==
    { [ status |-> 200, data |-> Data(TRUE, "Thanks!", Undefined, <<>>, NoConflict) ],
      [ status |-> 200, data |-> Data(FALSE, Undefined, "Spam detected", <<>>, NoConflict) ],
      [ status |-> 409,
        data |-> Data(FALSE, "Slot taken", Undefined, <<>>,
                      [reason |-> "slot_taken", hasUpdatedSlots |-> TRUE]) ],
      [ status |-> 409,
        data |-> Data(FALSE, "Slot taken", Undefined, <<>>,
                      [reason |-> "slot_taken", hasUpdatedSlots |-> FALSE]) ],
      [ status |-> 409, data |-> Data(FALSE, Undefined, Undefined, <<>>, NoConflict) ],
      [ status |-> 429, data |-> Data(FALSE, "Slow down", Undefined, <<>>, NoConflict) ],
      [ status |-> 400,
        data |-> Data(FALSE, Undefined, Undefined, <<"Bad name", "Bad email">>, NoConflict) ],
      [ status |-> 500, data |-> Data(FALSE, Undefined, Undefined, <<>>, NoConflict) ] }

\* errors.join(', ')
RECURSIVE Join(_, _)
Join(xs, sep) ==
    IF Len(xs) = 0 THEN ""
    ELSE IF Len(xs) = 1 THEN xs[1]
    ELSE xs[1] \o sep \o Join(Tail(xs), sep)

\* submitContactWithAppointment on the live backend: what the call settles
\* with for the backend's answer.
submitContactWithAppointment(response) ==
    IF response = NoResponse \/ response.data = NotJson
    THEN Rejected("network", "Network error. Please check your connection and try again.",
                  TRUE, FALSE)
    ELSE LET data == response.data IN
         IF response.status = 409 /\ data.conflict # NoConflict
         THEN Rejected("conflict",
                       IF data.conflict.reason = "slot_taken"
                       THEN "Sorry, this time slot was just booked. Please select another time."
                       ELSE OrElse(data.message, "Conflict occurred"),
                       TRUE, data.conflict.hasUpdatedSlots)
         ELSE IF response.status = 429
         THEN Rejected("rate_limit",
                       OrElse(data.message, "Too many booking attempts. Please try again later."),
                       FALSE, FALSE)
         ELSE IF ~ok(response) /\ response.status = 400
         THEN Rejected("validation",
                       OrElse(data.message, OrElse(Join(data.errors, ", "), "Validation error")),
                       FALSE, FALSE)
         ELSE IF ~ok(response)
         THEN Rejected("network",
                       OrElse(data.message,
                              OrElse(data.error, "Failed to submit contact form")),
                       TRUE, FALSE)
         ELSE Fulfilled(data)

\* mockSubmitContactWithAppointment: the results the mock may return for a
\* request (Math.random decides among them).
mockSubmitContactWithAppointment(request) ==
    IF request.website # <<>>
    THEN { Fulfilled(Data(FALSE, Undefined, "Spam detected", <<>>, NoConflict)) }
    ELSE (IF request.appointment # NoAppointment
          THEN { Fulfilled(Data(FALSE, "This time slot was just booked", Undefined, <<>>,
                                [reason |-> "slot_taken", hasUpdatedSlots |-> TRUE])) }
          ELSE {})
         \cup
         { Fulfilled(Data(FALSE, "Too many booking attempts. Please try again later.",
                          Undefined, <<>>,
                          [reason |-> "rate_limit", hasUpdatedSlots |-> FALSE])),
           Fulfilled(Data(TRUE,
                          IF request.appointment # NoAppointment
                          THEN "Your message has been sent and appointment booked!"
                          ELSE "Your message has been sent!",
                          Undefined, <<>>, NoConflict)) }

\* The backend reports a slot conflict only for a request that asked for a slot
\* (like the mock, which draws its conflict only if request.appointment).
BackendMayAnswer(request, response) ==
    (response # NoResponse /\ response.data # NotJson /\ response.data.conflict # NoConflict)
        => request.appointment # NoAppointment

\* Everything the client call can settle with for the request in flight, the
\* live backend answering with one of responses.  shouldUseMockAPI() selects
\* the client.
SubmitOutcomes(responses) ==
    IF submitReq = NoReq THEN {}
    ELSE IF useMock
    THEN { [ response |-> MockAnswer, result |-> result ] :
             result \in mockSubmitContactWithAppointment(submitReq) }
    ELSE { [ response |-> response, result |-> submitContactWithAppointment(response) ] :
             response \in { r \in responses : BackendMayAnswer(submitReq, r) } }

SubmitResults(responses) == { outcome.result : outcome \in SubmitOutcomes(responses) }

\* ------------------------------------------- ContactForm: after the await

\* Mutant of ClearMessage: the whole form is reset.
ClearMessage_All(prev) == [name |-> <<>>, email |-> <<>>, message |-> <<>>, website |-> <<>>]

\* setFormData(prev => ({ ...prev, message: '' }))
ClearMessage(prev) == [prev EXCEPT !.message = <<>>]

\* setAppointmentSelection(prev => ({ ...prev, selectedSlot: null }))
ClearSelectedSlot(prev) == [prev EXCEPT !.selectedSlot = NullSlot]

\* if (response.success) { ... }
SubmitSucceeded(result) ==
    /\ result.kind = "fulfilled"
    /\ result.data.success
    /\ status' = "success"
    /\ formData' = ClearMessage(formData)
    /\ appointmentSelection' = ClearSelectedSlot(appointmentSelection)
    /\ refreshSlots
    /\ UNCHANGED <<errorMessage, conflictError, timers>>

\* Mutant of SubmitRefused: a refused submission puts the form back to idle.
SubmitRefused_BackToIdle(result) ==
    /\ result.kind = "fulfilled"
    /\ ~result.data.success
    /\ status' = "idle"
    /\ errorMessage' = OrElse(result.data.message,
                              OrElse(result.data.error, "Failed to send message"))
    /\ UNCHANGED <<formData, appointmentSelection, conflictError, timers>>
    /\ UNCHANGED <<loading, error, fetchFailure, inflight>>

\* Mutant of SubmitRefused: the else branch sets the message only.
SubmitRefused_StaysSubmitting(result) ==
    /\ result.kind = "fulfilled"
    /\ ~result.data.success
    /\ errorMessage' = OrElse(result.data.message,
                              OrElse(result.data.error, "Failed to send message"))
    /\ UNCHANGED <<status, formData, appointmentSelection, conflictError, timers>>
    /\ UNCHANGED <<loading, error, fetchFailure, inflight>>

\* else { setStatus('error'); setErrorMessage(...) }
SubmitRefused(result) ==
    /\ result.kind = "fulfilled"
    /\ ~result.data.success
    /\ status' = "error"
    /\ errorMessage' = OrElse(result.data.message,
                              OrElse(result.data.error, "Failed to send message"))
    /\ UNCHANGED <<formData, appointmentSelection, conflictError, timers>>
    /\ UNCHANGED <<loading, error, fetchFailure, inflight>>

\* Mutant of SubmitThrew: the banner shows the fixed network text, not the
\* message of the error value.
SubmitThrew_GenericMessage(result) ==
    /\ result.kind = "rejected"
    /\ status' = "error"
    /\ errorMessage' = "Network error. Please check your connection and try again."
    /\ IF result.type = "conflict" /\ result.hasUpdatedSlots
       THEN /\ timers < MaxTimers
            /\ conflictError' = TRUE
            /\ timers' = timers + 1
       ELSE UNCHANGED <<conflictError, timers>>
    /\ UNCHANGED <<formData, appointmentSelection>>
    /\ UNCHANGED <<loading, error, fetchFailure, inflight>>

\* Mutant of SubmitThrew: every retryable-or-not failure raises the flag and
\* schedules the refresh, not only a conflict.
SubmitThrew_AlwaysRefresh(result) ==
    /\ result.kind = "rejected"
    /\ status' = "error"
    /\ errorMessage' = result.message
    /\ timers < MaxTimers
    /\ conflictError' = TRUE
    /\ timers' = timers + 1
    /\ UNCHANGED <<formData, appointmentSelection>>
    /\ UNCHANGED <<loading, error, fetchFailure, inflight>>

\* Mutant of SubmitThrew: the conflict branch schedules the refresh but never
\* raises the flag.
SubmitThrew_NoFlag(result) ==
    /\ result.kind = "rejected"
    /\ status' = "error"
    /\ errorMessage' = result.message
    /\ IF result.type = "conflict" /\ result.hasUpdatedSlots
       THEN /\ timers < MaxTimers
            /\ timers' = timers + 1
            /\ UNCHANGED conflictError
       ELSE UNCHANGED <<conflictError, timers>>
    /\ UNCHANGED <<formData, appointmentSelection>>
    /\ UNCHANGED <<loading, error, fetchFailure, inflight>>

\* catch (error) with an AppointmentAPIError
SubmitThrew(result) ==
    /\ result.kind = "rejected"
    /\ status' = "error"
    /\ errorMessage' = result.message
    /\ IF result.type = "conflict" /\ result.hasUpdatedSlots
       THEN /\ timers < MaxTimers
            /\ conflictError' = TRUE
            /\ timers' = timers + 1
       ELSE UNCHANGED <<conflictError, timers>>
    /\ UNCHANGED <<formData, appointmentSelection>>
    /\ UNCHANGED <<loading, error, fetchFailure, inflight>>

\* handleSubmit after its await: the client call settled with result.
SubmitSettled(result) ==
    /\ submitReq # NoReq
    /\ submitReq' = NoReq
    /\ submitResult' = result
    /\ \/ SubmitSucceeded(result)
       \/ SubmitRefused(result)
       \/ SubmitThrew(result)
    /\ UNCHANGED errors
    /\ UNCHANGED <<selectedDate, duration, availableSlots, selectedSlot, meetingPlatform>>
    /\ UNCHANGED <<roots, elRoot, prefersDark, useMock, today, slotsFor>>

\* The submission's await settles: the backend answered with outcome.response
\* and the client call settled with outcome.result.
SubmitAnswered(outcome) ==
    /\ SubmitSettled(outcome.result)
    /\ submitResponse' = outcome.response

\* The setTimeout callback of the conflict branch, 2000 ms after it was set.
ConflictTimerFired ==
    /\ timers > 0
    /\ timers' = timers - 1
    /\ refreshSlots
    /\ conflictError' = FALSE
    /\ UNCHANGED <<formData, status, errorMessage, errors, appointmentSelection>>
    /\ UNCHANGED <<selectedDate, duration, availableSlots, selectedSlot, meetingPlatform>>
    /\ UNCHANGED <<roots, elRoot, prefersDark, useMock, today, submitReq, slotsFor, submitResult, submitResponse>>

\* ------------------------------------------------- entry.tsx: mount, unmount

\* mount(el): a new root is created on the container and renders App, whose
\* effect subscribes to the media query; el.__root is overwritten with it.
mount(el) ==
    /\ Len(roots) < MaxRoots
    /\ roots' = Append(roots, NewRoot(el, prefersDark))
    /\ elRoot' = [elRoot EXCEPT ![el] = Len(roots) + 1]
    /\ UNCHANGED prefersDark
    /\ UNCHANGED formVars
    /\ UNCHANGED pickerVars
    /\ UNCHANGED <<useMock, today, inflight, submitReq, timers, slotsFor, submitResult,
                   submitResponse>>

\* root.unmount(): the tree is removed from the container and the effect's
\* cleanup removes the handler.
UnmountRoot(root) == [root EXCEPT !.attached = FALSE, !.listening = FALSE]

\* unmount(el): el.__root?.unmount(); el.__root keeps its value.
unmount(el) ==
    /\ roots' = IF elRoot[el] = 0
                THEN roots
                ELSE [roots EXCEPT ![elRoot[el]] = UnmountRoot(roots[elRoot[el]])]
    /\ UNCHANGED <<elRoot, prefersDark>>
    /\ UNCHANGED formVars
    /\ UNCHANGED pickerVars
    /\ UNCHANGED <<useMock, today, inflight, submitReq, timers, slotsFor, submitResult,
                   submitResponse>>

\* The browser's colour scheme changes: the 'change' event runs the handler of
\* every subscribed App, which stores e.matches in its isDarkTheme.
ColorSchemeChange ==
    /\ prefersDark' = ~prefersDark
    /\ roots' = [ i \in DOMAIN roots |->
                    IF roots[i].listening
                    THEN [roots[i] EXCEPT !.isDarkTheme = ~prefersDark]
                    ELSE roots[i] ]
    /\ UNCHANGED elRoot
    /\ UNCHANGED formVars
    /\ UNCHANGED pickerVars
    /\ UNCHANGED <<useMock, today, inflight, submitReq, timers, slotsFor, submitResult,
                   submitResponse>>

\* ------------------------------------------------------------------- Next

\* The visitor types into the contact fields.
FormInput(names, emails, messages, websites) ==
    \/ \E v \in names : TypeName(v)
    \/ \E v \in emails : TypeEmail(v)
    \/ \E v \in messages : TypeMessage(v)
    \/ \E v \in websites : TypeWebsite(v)

\* Errors shown without a submit attempt: a field loses focus, the pointer
\* enters the disabled submit button.
FieldChecks ==
    \/ \E f \in {"name", "email", "message"} : handleBlur(f)
    \/ HoverSubmit

\* A submit attempt, its settlement and the conflict timer.
Submission(responses) ==
    \/ handleSubmit
    \/ \E outcome \in SubmitOutcomes(responses) : SubmitAnswered(outcome)
    \/ ConflictTimerFired

\* The visitor uses the picker.
PickerInput(days, durations, platforms) ==
    \/ \E d \in days : DateChange(d)
    \/ \E n \in durations : DurationChange(n)
    \/ \E p \in platforms : PlatformChange(p)
    \/ \E i \in 1..Len(availableSlots) : SlotClick(i)
    \/ ClearAppointment

\* Slot fetches settle, in any order.
Fetching(patterns) ==
    \/ \E r \in Requests : \E pattern \in patterns : FetchFulfilled(r, pattern)
    \/ \E r \in Requests : \E failure \in FetchFailures : FetchRejected(r, failure)

AllResponses == HttpResponses \cup {NoResponse}

\* Further answers of the live backend to a submission: 400 and 429 bodies
\* with and without message and errors, conflict bodies with another reason or
\* another status, and bodies that are not JSON.
MoreResponses ==
    { [ status |-> 400,
        data |-> Data(FALSE, "Invalid request", Undefined, <<"Bad name", "Bad email">>,
                      NoConflict) ],
      [ status |-> 400, data |-> Data(FALSE, Undefined, Undefined, <<"Bad email">>, NoConflict) ],
      [ status |-> 400, data |-> Data(FALSE, Undefined, Undefined, <<>>, NoConflict) ],
      [ status |-> 429, data |-> Data(FALSE, Undefined, Undefined, <<>>, NoConflict) ],
      [ status |-> 429,
        data |-> Data(FALSE, "Slow down", Undefined, <<>>,
                      [reason |-> "rate_limit", hasUpdatedSlots |-> FALSE]) ],
      [ status |-> 409,
        data |-> Data(FALSE, "Slot not offered", Undefined, <<>>,
                      [reason |-> "invalid_slot", hasUpdatedSlots |-> FALSE]) ],
      [ status |-> 429, data |-> NotJson ],
      [ status |-> 400, data |-> NotJson ],
      [ status |-> 200, data |-> NotJson ] }

ClientResponses == AllResponses \cup MoreResponses

\* Spec: every handler, every contact-field input and every backend answer to
\* a submission, with the picker used on one day and one duration.
Next ==
    \/ FormInput(NameInputs, EmailInputs, MessageInputs, WebsiteInputs)
    \/ FieldChecks
    \/ Submission(AllResponses)
    \/ PickerInput({"day1"}, {15}, PLATFORMS)
    \/ Fetching(MockPatterns)

Spec == Init /\ [][Next]_vars

\* SpecPicker: the picker over every day, duration, platform and slot list, with
\* overlapping fetches; the contact fields only ever take their valid values and
\* a submission is answered with success, a refusal, a slot conflict or not at all.
PickerResponses ==
    { r \in HttpResponses :
        r.status = 200 \/ (r.status = 409 /\ r.data.conflict # NoConflict) }
    \cup {NoResponse}

NextPicker ==
    \/ FormInput({ValidName}, {ValidEmail}, {ValidMessage}, {<<>>})
    \/ Submission(PickerResponses)
    \/ PickerInput(Days, DURATION_OPTIONS, PLATFORMS)
    \/ Fetching(LivePatterns)

SpecPicker == Init /\ [][NextPicker]_vars

\* SpecClient: both API clients over every answer of the backend, to a
\* submission and to a slot request; the contact fields only take their valid
\* values and the picker is used on one day, one duration and one platform.
NextClient ==
    \/ FormInput({ValidName}, {ValidEmail}, {ValidMessage}, {<<>>})
    \/ Submission(ClientResponses)
    \/ PickerInput({"day1"}, {15}, {"jitsi"})
    \/ Fetching(MockPatterns)

SpecClient == Init /\ [][NextClient]_vars

\* SpecCalendar: the calendar with the tile of the day the page was opened on
\* and of the two days after it, while the clock may pass midnight; one
\* duration, one platform, valid contact fields.
NextCalendar ==
    \/ FormInput({ValidName}, {ValidEmail}, {ValidMessage}, {<<>>})
    \/ Submission(PickerResponses)
    \/ PickerInput(CalendarDays, {15}, {"jitsi"})
    \/ Fetching(MockPatterns)
    \/ Midnight

SpecCalendar == Init /\ [][NextCalendar]_vars

\* SpecValidate: validateForm and isFormValid as functions of the orchestrator's
\* formData and appointmentSelection, the latter started at any value of the
\* type AppointmentSelection (date, selectedSlot and meetingPlatform each null
\* or set); the picker is left alone.
AppointmentSelections ==
    [ date : {Null, "day1"},
      duration : {15},
      selectedSlot : {NullSlot, Slot(FetchRequest("day1", 15), 1, TRUE)},
      meetingPlatform : {Null, "jitsi"} ]

InitValidate ==
    /\ formData = [name |-> <<>>, email |-> <<>>, message |-> <<>>, website |-> <<>>]
    /\ status = "idle"
    /\ errorMessage = ""
    /\ errors = NoErrors
    /\ appointmentSelection \in AppointmentSelections
    /\ conflictError = FALSE
    /\ selectedDate = Null
    /\ duration = 15
    /\ availableSlots = <<>>
    /\ selectedSlot = NullSlot
    /\ meetingPlatform = "jitsi"
    /\ loading = FALSE
    /\ error = Null
    /\ fetchFailure = NoFailure
    /\ roots = << NewRoot("el1", FALSE) >>
    /\ elRoot = [el \in Els |-> IF el = "el1" THEN 1 ELSE 0]
    /\ prefersDark = FALSE
    /\ useMock \in BOOLEAN
    /\ today = 0
    /\ inflight = [r \in Requests |-> 0]
    /\ submitReq = NoReq
    /\ timers = 0
    /\ slotsFor = NoRequest
    /\ submitResult = NoResult
    /\ submitResponse = NoAnswer

NextValidate ==
    \/ FormInput(NameInputs, EmailInputs, MessageInputs, WebsiteInputs)
    \/ FieldChecks
    \/ Submission(PickerResponses)

SpecValidate == InitValidate /\ [][NextValidate]_vars

\* SpecFields: the field rules on names of every shape; the rest as in
\* SpecValidate.
NextFields ==
    \/ FormInput(NameStrings, EmailInputs, MessageInputs, WebsiteInputs)
    \/ FieldChecks
    \/ Submission(PickerResponses)

SpecFields == InitValidate /\ [][NextFields]_vars

\* SpecMount: the host page mounts and unmounts the component on its
\* containers while the browser's colour scheme changes.  The page starts with
\* the component mounted once on el1.
NextMount ==
    \/ \E el \in Els : mount(el)
    \/ \E el \in Els : unmount(el)
    \/ ColorSchemeChange

SpecMount == Init /\ [][NextMount]_vars

\* SpecSettle: SpecClient with every awaited call settling.  A fetch or a
\* submission that was sent gets its response, or fails, after finite time;
\* the continuation after the await then runs as the next task of the event
\* loop.  Nothing is assumed about the visitor's inputs.
SubmitSettles == \E outcome \in SubmitOutcomes(ClientResponses) : SubmitAnswered(outcome)

FetchSettles == Fetching(MockPatterns)

SpecSettle ==
    /\ Init
    /\ [][NextClient]_vars
    /\ WF_vars(SubmitSettles)
    /\ WF_vars(FetchSettles)

\* SpecTrying: SpecSettle with a visitor who keeps trying every input the page
\* offers: whatever control can be used again and again is used again.
VisitorInputs ==
    { "submit", "clear", "slot", "date", "duration", "platform", "type" }

VisitorInput(input) ==
    IF input = "submit" THEN handleSubmit
    ELSE IF input = "clear" THEN ClearAppointment
    ELSE IF input = "slot" THEN \E i \in 1..Len(availableSlots) : SlotClick(i)
    ELSE IF input = "date" THEN DateChange("day1")
    ELSE IF input = "duration" THEN DurationChange(15)
    ELSE IF input = "platform" THEN PlatformChange("jitsi")
    ELSE FormInput({ValidName}, {ValidEmail}, {ValidMessage}, {<<>>})

SpecTrying ==
    /\ SpecSettle
    /\ \A input \in VisitorInputs : SF_vars(VisitorInput(input))

\* ================================================================== claims

\* The picker's current (date, duration) pair as a fetch request.
CurrentRequest == FetchRequest(selectedDate, duration)

\* A submission settled with success in this step.
SucceededStep == status = "submitting" /\ status' = "success"

\* C1: once every slot fetch in flight has settled, the slot list the picker
\* holds is the one returned for its current (date, duration) pair, whatever
\* the order in which the responses arrived: a superseded fetch's response is
\* never the one applied last.
C1_SupersededDiscarded ==
    (selectedDate # Null /\ InflightCount = 0) => slotsFor = CurrentRequest

\* C3: a step that settles a submission with success leaves no slot selected,
\* neither in the picker nor in the orchestrator's selection, and keeps the
\* date and the meeting platform of both.
C3_SlotClearedOnSuccess ==
    [][ SucceededStep =>
            /\ selectedSlot' = NullSlot
            /\ appointmentSelection'.selectedSlot = NullSlot
            /\ selectedDate' = selectedDate
            /\ meetingPlatform' = meetingPlatform
            /\ appointmentSelection'.date = appointmentSelection.date
            /\ appointmentSelection'.meetingPlatform = appointmentSelection.meetingPlatform
      ]_vars

\* C4: after every step (picker transition or orchestrator action, effects
\* included) the orchestrator's appointment selection equals the picker's own
\* date, duration, selected slot and meeting platform.
C4_ParentMirrorsPicker == appointmentSelection = PickerSelection

\* A submit attempt passed client validation and its request went out in this step.
SentStep == submitReq = NoReq /\ submitReq' # NoReq

\* A submission settled in this step.
SettledStep == submitReq # NoReq /\ submitReq' = NoReq

\* C2: status starts at idle; it changes only from idle, success or error to
\* submitting, by a submit attempt that passes client validation and sends the
\* request, and from submitting to success or error; so it never returns to
\* idle and never moves between success and error directly.
C2_StatusStep ==
    status' # status =>
        \/ /\ status \in {"idle", "success", "error"}
           /\ status' = "submitting"
           /\ SentStep
           /\ validateFormErrors(formData, appointmentSelection) = NoErrors
        \/ /\ status = "submitting"
           /\ status' \in {"success", "error"}
           /\ SettledStep

C2_StatusMonotonic == status = "idle" /\ [][C2_StatusStep]_vars

\* Reached: a second submission went out after an earlier one had failed.
C2_Witness == status = "submitting" /\ submitResult.kind = "rejected"

\* The conflict timer's callback ran in this step.
TimerStep == timers' = timers - 1

\* The submission settled in this step carried a slot and the live client
\* rejected it as a conflict (409 with a conflict body) that lists updatedSlots.
ConflictStep ==
    /\ SettledStep
    /\ ~useMock
    /\ submitReq.appointment # NoAppointment
    /\ submitResult'.kind = "rejected"
    /\ submitResult'.type = "conflict"
    /\ submitResult'.hasUpdatedSlots

\* Such a conflict sets status to error, raises the flag and schedules one callback.
C5_ConflictRaisesFlag ==
    ConflictStep => status' = "error" /\ conflictError' /\ timers' = timers + 1

\* The callback starts one slot fetch for the picker's current pair and clears the flag.
C5_TimerRefreshes ==
    TimerStep =>
        /\ ~conflictError'
        /\ selectedDate # Null =>
              inflight' = [inflight EXCEPT ![CurrentRequest] = @ + 1]

C6_OneRefetchAlways ==
    [][ SucceededStep => InflightCount' = InflightCount + 1 ]_vars

\* C6 (amended): a step that settles a submission with success starts exactly
\* one slot fetch, for the picker's current pair, when the picker has a date,
\* and none when it has no date.
C6_OneRefetchIfDate ==
    [][ SucceededStep =>
            IF selectedDate # Null
            THEN inflight' = [inflight EXCEPT ![CurrentRequest] = @ + 1]
            ELSE inflight' = inflight
      ]_vars

\* Reached: a submission succeeded with a date chosen and its refresh is in flight.
C6_Witness ==
    /\ status = "success" /\ selectedDate # Null
    /\ inflight[CurrentRequest] = 1 /\ loading

\* C7: a step that settles a submission with success empties the message field
\* and leaves name, email and the honeypot field as they were when the response
\* arrived.
C7_OnlyMessageCleared ==
    [][ SucceededStep =>
            /\ formData'.message = <<>>
            /\ formData'.name = formData.name
            /\ formData'.email = formData.email
            /\ formData'.website = formData.website
      ]_vars

\* Reached: a submission succeeded, the message is empty, name and email are kept.
C7_Witness ==
    /\ status = "success" /\ submitResult.kind = "fulfilled"
    /\ formData.message = <<>> /\ formData.name = ValidName /\ formData.email = ValidEmail

\* Client-side validation fails: a contact field is rejected by its validator,
\* or a slot is selected without a platform, or a date without a slot.
C8_ValidationFails ==
    \/ validators_name(formData.name) # Undefined
    \/ validators_email(formData.email) # Undefined
    \/ validators_message(formData.message) # Undefined
    \/ appointmentSelection.selectedSlot # NullSlot /\ appointmentSelection.meetingPlatform = Null
    \/ appointmentSelection.date # Null /\ appointmentSelection.selectedSlot = NullSlot

\* C8: while client-side validation fails, no step (a submit attempt least of
\* all) sends a submission request, and the status changes only by the
\* settlement of a request sent earlier.
C8_InvalidNeverSent ==
    [][ C8_ValidationFails =>
            /\ submitReq' = submitReq \/ SettledStep
            /\ status' = status \/ SettledStep
      ]_vars

\* Reached: a submit attempt with valid contact fields was turned down by the
\* appointment rule: its error is shown, nothing was sent, status is unchanged.
C8_Witness ==
    /\ errors.appointment = "Please select a time slot or clear the date selection"
    /\ isFormValid(formData, appointmentSelection)
    /\ C8_ValidationFails
    /\ status = "idle" /\ submitReq = NoReq /\ submitResult = NoResult

\* The slot list lists the id of slot as available.
ListedAvailable(slots, slot) ==
    \E i \in 1..Len(slots) : slots[i].id = slot.id /\ slots[i].available

\* A slot fetch settled in this step.
FetchSettledStep == InflightCount' = InflightCount - 1

\* C9: whenever a slot is selected and no fetch is in flight, its id is in the
\* picker's slot list and marked available there; a fetch settlement that does
\* not list the selected slot as available clears the selection; and the
\* selection never becomes a slot that the list does not show as available (so
\* a click on an unavailable slot does not change it).
C9_SelectionStep ==
    /\ (FetchSettledStep /\ selectedSlot # NullSlot
            /\ ~ListedAvailable(availableSlots', selectedSlot))
         => selectedSlot' = NullSlot
    /\ (selectedSlot' # selectedSlot /\ selectedSlot' # NullSlot)
         => /\ selectedSlot'.available
            /\ ListedAvailable(availableSlots, selectedSlot')

C9_SelectedIsListed ==
    /\ []((selectedSlot # NullSlot /\ InflightCount = 0)
             => ListedAvailable(availableSlots, selectedSlot))
    /\ [][C9_SelectionStep]_vars

\* Reached: a slot is selected, no fetch is in flight, and the list the picker
\* shows also has an unavailable slot to click on.
C9_Witness ==
    /\ selectedSlot # NullSlot /\ InflightCount = 0 /\ ~loading
    /\ \E i \in 1..Len(availableSlots) : ~availableSlots[i].available

\* C10: the request a submit attempt sends carries name, email, message and
\* the honeypot field as entered; it carries an appointment descriptor exactly
\* if the orchestrator's selection has a slot and a platform, and then the
\* descriptor's slot id, date, start, end, duration and platform are those of
\* that selection, which at that moment is also what the picker shows.
C10_PayloadStep ==
    SentStep =>
        /\ submitReq'.name = formData.name
        /\ submitReq'.email = formData.email
        /\ submitReq'.message = formData.message
        /\ submitReq'.website = formData.website
        /\ submitReq'.appointment # NoAppointment
             <=> (appointmentSelection.selectedSlot # NullSlot
                    /\ appointmentSelection.meetingPlatform # Null)
        /\ submitReq'.appointment # NoAppointment =>
             /\ submitReq'.appointment.slotId = appointmentSelection.selectedSlot.id
             /\ submitReq'.appointment.startTime = appointmentSelection.selectedSlot.startTime
             /\ submitReq'.appointment.endTime = appointmentSelection.selectedSlot.endTime
             /\ submitReq'.appointment.duration = appointmentSelection.duration
             /\ submitReq'.appointment.platform = appointmentSelection.meetingPlatform
             /\ submitReq'.appointment.date = format(appointmentSelection.date)
        /\ appointmentSelection = PickerSelection

C10_PayloadIsForm == [][C10_PayloadStep]_vars

\* Reached: a request is on its way with a filled honeypot and an appointment.
C10_Witness ==
    /\ status = "submitting"
    /\ submitReq # NoReq
    /\ submitReq.website # <<>>
    /\ submitReq.appointment # NoAppointment

\* A date is set in the orchestrator's selection but no slot.
DateWithoutSlot ==
    appointmentSelection.date # Null /\ appointmentSelection.selectedSlot = NullSlot

\* A slot is selected in the orchestrator's selection but no platform.
SlotWithoutPlatform ==
    appointmentSelection.selectedSlot # NullSlot /\ appointmentSelection.meetingPlatform = Null

\* C11: whenever a date is set without a slot, whole-form validation fails with
\* the appointment error "Please select a time slot or clear the date
\* selection", and whenever a slot is selected without a platform, with "Please
\* select a meeting platform"; in both cases that is the appointment error a
\* validation run displays, and no step sends a submission request.
C11_RuleHolds ==
    /\ DateWithoutSlot =>
         /\ validateFormErrors(formData, appointmentSelection).appointment
              = "Please select a time slot or clear the date selection"
         /\ ~validateForm(formData, appointmentSelection)
    /\ SlotWithoutPlatform =>
         /\ validateFormErrors(formData, appointmentSelection).appointment
              = "Please select a meeting platform"
         /\ ~validateForm(formData, appointmentSelection)

C11_RuleStep ==
    (DateWithoutSlot \/ SlotWithoutPlatform) =>
        /\ submitReq' = submitReq \/ SettledStep
        /\ errors'.appointment # errors.appointment =>
             errors'.appointment = IF DateWithoutSlot
                                   THEN "Please select a time slot or clear the date selection"
                                   ELSE "Please select a meeting platform"

C11_AppointmentRuleBlocks == []C11_RuleHolds /\ [][C11_RuleStep]_vars

\* Reached: a slot without a platform, and a validation run has displayed the
\* platform error; nothing was sent.
C11_Witness ==
    /\ SlotWithoutPlatform
    /\ errors.appointment = "Please select a meeting platform"
    /\ status = "idle" /\ submitReq = NoReq /\ submitResult = NoResult

\* The backend's answer to the last settled submission is an HTTP response
\* with a JSON body.
Structured(response) ==
    /\ response \notin {NoAnswer, MockAnswer, NoResponse}
    /\ response.data # NotJson

\* The submission settled in this step was answered with this HTTP status and
\* a JSON body.
AnsweredStep(code) ==
    /\ SettledStep
    /\ Structured(submitResponse')
    /\ submitResponse'.status = code

\* C12 (as claimed): when a submission is answered with 400 and a body that
\* lists errors, status becomes error and the message shown is that list,
\* joined with ", ".
C12_MessageIsErrorList ==
    [][ (AnsweredStep(400) /\ submitResponse'.data.errors # <<>>) =>
            /\ status' = "error"
            /\ errorMessage' = Join(submitResponse'.data.errors, ", ")
      ]_vars

\* C12 (amended): when a submission is answered with 400 and a JSON body,
\* status becomes error and the message shown is the body's message if it has
\* one, otherwise its error list joined with ", ", otherwise "Validation error".
C12_MessageOrErrorList ==
    [][ AnsweredStep(400) =>
            /\ status' = "error"
            /\ errorMessage' =
                 IF submitResponse'.data.message \notin {Undefined, ""}
                 THEN submitResponse'.data.message
                 ELSE IF Join(submitResponse'.data.errors, ", ") # ""
                 THEN Join(submitResponse'.data.errors, ", ")
                 ELSE "Validation error"
      ]_vars

\* Reached: a 400 that lists two errors and no message; the banner shows both.
C12_Witness ==
    /\ status = "error"
    /\ Structured(submitResponse) /\ submitResponse.status = 400
    /\ errorMessage = "Bad name, Bad email"

ErrorTypes == {"conflict", "rate_limit", "validation", "network"}

\* The backend answered with this HTTP status (whatever the body).
HttpStatus(response, code) ==
    response \notin {NoAnswer, MockAnswer} /\ response.status = code

\* C14: every failure of the submission client and of the slot client is an
\* error value with a type tag of ErrorTypes; for a submission the tag is
\* conflict exactly for a 409 with a conflict body, rate_limit exactly for a
\* 429, validation exactly for a 400, and network otherwise.
C14_TagByStatus ==
    /\ fetchFailure # NoFailure =>
         fetchFailure.kind = "rejected" /\ fetchFailure.type \in ErrorTypes
    /\ submitResult.kind = "rejected" =>
         /\ submitResult.type \in ErrorTypes
         /\ submitResult.type = "conflict"
              <=> (HttpStatus(submitResponse, 409) /\ Structured(submitResponse)
                     /\ submitResponse.data.conflict # NoConflict)
         /\ submitResult.type = "rate_limit" <=> HttpStatus(submitResponse, 429)
         /\ submitResult.type = "validation" <=> HttpStatus(submitResponse, 400)

\* C15: a slot fetch that fails leaves the picker with an empty slot list, the
\* failure's message as its error, no selected slot (nor one in the
\* orchestrator's selection) and loading off; date, duration and platform are
\* unchanged.
C15_FailureStep ==
    \A r \in Requests : \A failure \in FetchFailures :
        FetchRejected(r, failure) =>
            /\ availableSlots' = <<>>
            /\ error' = failure.message /\ error' # Null
            /\ selectedSlot' = NullSlot
            /\ appointmentSelection'.selectedSlot = NullSlot
            /\ ~loading'
            /\ selectedDate' = selectedDate
            /\ duration' = duration
            /\ meetingPlatform' = meetingPlatform

C15_FetchFailureClears == [][C15_FailureStep]_vars

\* Reached: a fetch for the chosen date failed; the list is empty, the error is
\* shown, nothing is selected or in flight.
C15_Witness ==
    /\ error # Null /\ fetchFailure.kind = "rejected"
    /\ availableSlots = <<>> /\ selectedSlot = NullSlot /\ ~loading
    /\ selectedDate # Null /\ InflightCount = 0

\* C16: selecting a date, or changing the duration while a date is set,
\* clears the selected slot (the orchestrator's too), starts one slot fetch
\* for the new (date, duration) pair and turns loading on; and a slot is only
\* ever selected while the picker is not loading.
C16_ChangeStep ==
    /\ \A d \in Days :
         DateChange(d) =>
           /\ selectedSlot' = NullSlot
           /\ appointmentSelection'.selectedSlot = NullSlot
           /\ inflight' = [inflight EXCEPT ![FetchRequest(d, duration)] = @ + 1]
           /\ loading'
    /\ \A n \in DURATION_OPTIONS :
         (DurationChange(n) /\ n # duration /\ selectedDate # Null) =>
           /\ selectedSlot' = NullSlot
           /\ appointmentSelection'.selectedSlot = NullSlot
           /\ inflight' = [inflight EXCEPT ![FetchRequest(selectedDate, n)] = @ + 1]
           /\ loading'
    /\ (selectedSlot' # selectedSlot /\ selectedSlot' # NullSlot) => ~loading /\ ~loading'

C16_ChangeRefetches == [][C16_ChangeStep]_vars

\* Reached: slots were listed, then the duration was changed: the picker is
\* loading the new pair with no slot selected.
C16_Witness ==
    /\ selectedDate # Null /\ duration = 30 /\ loading
    /\ selectedSlot = NullSlot /\ appointmentSelection.selectedSlot = NullSlot
    /\ availableSlots # <<>> /\ inflight[CurrentRequest] = 1

\* What a click on slot makes of the selection current, written out.
Toggled(current, slot) ==
    IF current # NullSlot /\ current.id = slot.id THEN NullSlot ELSE slot

\* C17: for every available slot of the list shown, a click on it with nothing
\* selected selects it and a second click then gives no selection again, and a
\* click on the selected slot deselects it; a click changes nothing but the
\* selection: date, duration, platform and slot list stay, no fetch starts.
C17_ToggleHolds ==
    \A i \in 1..Len(availableSlots) :
        availableSlots[i].available =>
            /\ SlotClickResult(NullSlot, availableSlots[i]) = availableSlots[i]
            /\ SlotClickResult(SlotClickResult(NullSlot, availableSlots[i]),
                               availableSlots[i]) = NullSlot
            /\ (selectedSlot # NullSlot /\ selectedSlot.id = availableSlots[i].id)
                 => SlotClickResult(selectedSlot, availableSlots[i]) = NullSlot

C17_ClickStep ==
    \A i \in 1..Len(availableSlots) :
        (SlotClick(i) /\ availableSlots[i].available) =>
            /\ selectedSlot' = Toggled(selectedSlot, availableSlots[i])
            /\ appointmentSelection'.selectedSlot = selectedSlot'
            /\ UNCHANGED <<selectedDate, duration, meetingPlatform, availableSlots, inflight>>

C17_SelectTwiceIsNone == []C17_ToggleHolds /\ [][C17_ClickStep]_vars

\* Reached: a slot of the list shown is selected, so a click on it is the
\* second click of the pair.
C17_Witness ==
    /\ SlotsShown /\ selectedSlot # NullSlot
    /\ \E i \in 1..Len(availableSlots) : availableSlots[i] = selectedSlot
    /\ appointmentSelection.selectedSlot = selectedSlot

\* C18: the clear-appointment action sets the selected slot to null (the
\* orchestrator's too) and changes nothing else of the picker: date, duration,
\* platform, slot list, loading and error stay, and no fetch is started.
C18_ClearStep ==
    ClearAppointment =>
        /\ selectedSlot' = NullSlot
        /\ appointmentSelection' = [appointmentSelection EXCEPT !.selectedSlot = NullSlot]
        /\ UNCHANGED <<selectedDate, duration, meetingPlatform, availableSlots>>
        /\ UNCHANGED <<loading, error, inflight>>
        /\ UNCHANGED <<formData, status, errorMessage, errors, conflictError, submitReq, timers>>

C18_ClearOnlySlot == [][C18_ClearStep]_vars

\* Reached: nothing is selected while a date, the second duration, the second
\* platform and a slot list are in place.
C18_Witness ==
    /\ selectedSlot = NullSlot /\ appointmentSelection.selectedSlot = NullSlot
    /\ selectedDate = "day2" /\ duration = 30 /\ meetingPlatform = "discord"
    /\ availableSlots # <<>> /\ SlotsShown /\ InflightCount = 0

\* C19: the picker's selected date, and the date of the orchestrator's
\* selection, is never the clock's day or an earlier one.
C19_NeverTodayOrEarlier ==
    /\ selectedDate # Null => DayNumber(selectedDate) > today
    /\ appointmentSelection.date # Null => DayNumber(appointmentSelection.date) > today

\* C20: the submit button's enabled state is the same in two successive states
\* that agree on field values, appointment selection and status, whatever
\* errors are displayed; hovering the disabled button displays the errors of
\* whole-form validation and leaves field values, selection, status and the
\* button's state as they are.
C20_EnablementStep ==
    /\ (formData' = formData /\ appointmentSelection' = appointmentSelection
          /\ status' = status)
         => (SubmitDisabled' <=> SubmitDisabled)
    /\ HoverSubmit =>
         /\ SubmitDisabled /\ SubmitDisabled'
         /\ errors' = [ name        |-> validators_name(formData.name),
                        email       |-> validators_email(formData.email),
                        message     |-> validators_message(formData.message),
                        appointment |-> IF DateWithoutSlot
                                        THEN "Please select a time slot or clear the date selection"
                                        ELSE Undefined ]
         /\ UNCHANGED <<formData, appointmentSelection, status, errorMessage, submitReq>>

C20_EnablementIgnoresErrors == [][C20_EnablementStep]_vars

\* Reached: whole-form validation has displayed all four errors on an empty
\* form with a date chosen; the button is disabled and nothing was submitted.
C20_Witness ==
    /\ errors.name = "Name is required" /\ errors.email = "Email is required"
    /\ errors.message = "Message is required"
    /\ errors.appointment = "Please select a time slot or clear the date selection"
    /\ formData.name = <<>> /\ formData.email = <<>> /\ formData.message = <<>>
    /\ SubmitDisabled /\ status = "idle" /\ submitResult = NoResult

\* ---------------------------------------------------------------- C21

\* A step that validates the name field: the field loses focus, the pointer
\* enters the disabled submit button, or a submit attempt runs validateForm.
C21_NameChecked == handleBlur("name") \/ HoverSubmit \/ handleSubmit

\* C21 (as stated): whenever the name is validated, a name whose trimmed
\* length is below 2, the empty name included, gets the message 'Name must be
\* at least 2 characters', and a name of trimmed length 2 or more gets none.
C21_ShortNameTooShort ==
    [][ C21_NameChecked =>
          errors'.name = IF Len(Trim(formData.name)) < 2
                         THEN "Name must be at least 2 characters"
                         ELSE Undefined ]_vars

\* C21 (amended): whenever the name is validated, a name that is empty after
\* trimming gets 'Name is required', a name of trimmed length 1 gets 'Name
\* must be at least 2 characters', and a name of trimmed length 2 or more
\* gets no message.
C21_NameRule ==
    [][ C21_NameChecked =>
          errors'.name = IF Len(Trim(formData.name)) = 0
                         THEN "Name is required"
                         ELSE IF Len(Trim(formData.name)) = 1
                         THEN "Name must be at least 2 characters"
                         ELSE Undefined ]_vars

\* A padded name of one letter is shown the 'too short' message.
C21_Witness ==
    /\ Len(formData.name) > 1
    /\ Len(Trim(formData.name)) = 1
    /\ errors.name = "Name must be at least 2 characters"

\* ---------------------------------------------------------------- C22

\* Roots created on a container that still render into it or still have their
\* colour-scheme handler subscribed.
C22_Left(el) ==
    { i \in DOMAIN roots : roots[i].el = el /\ (roots[i].attached \/ roots[i].listening) }

\* C22: after unmount(el) no root created by a mount on el remains attached
\* and no colour-scheme listener of such a root remains subscribed.
C22_UnmountUndoesMount ==
    [][ \A el \in Els : unmount(el) => C22_Left(el)' = {} ]_vars

\* ---------------------------------------------------------------- C23

\* C23: the appointment descriptor of a submission that was sent names a slot
\* that a fetch for the descriptor's own date and duration returned.
C23_DescriptorConsistent ==
    (submitReq # NoReq /\ submitReq.appointment # NoAppointment) =>
        /\ submitReq.appointment.slotId
             \in { Slot([date |-> submitReq.appointment.date,
                         duration |-> submitReq.appointment.duration], k, TRUE).id
                   : k \in 1..2 }
        /\ submitReq.appointment.startTime[1] = submitReq.appointment.date

\* ---------------------------------------------------------------- C24

\* A step that puts a submission request in flight.
C24_SendStep == submitReq' # NoReq /\ submitReq' # submitReq

\* C24: a request is in flight exactly while status is submitting, and no
\* step sends a request while status is submitting: a submit attempt starts
\* only with no request in flight.
C24_OneSubmissionInFlight ==
    /\ [](status = "submitting" <=> submitReq # NoReq)
    /\ [][ (handleSubmit \/ C24_SendStep) =>
             (status # "submitting" /\ submitReq = NoReq) ]_vars

\* A submission is in flight and the form, edited since, is valid again: only
\* the status keeps the button disabled.
C24_Witness ==
    /\ status = "submitting"
    /\ isFormValid(formData, appointmentSelection)
    /\ BuildRequest(formData, appointmentSelection) # submitReq

\* ---------------------------------------------------------------- C25

\* C25: while at least one slot fetch is in flight the loading indicator is
\* on, so that the slot buttons are not rendered.
C25_LoadingWhileInFlight ==
    InflightCount > 0 => (loading /\ ~SlotsShown)

\* ---------------------------------------------------------------- C26

\* A step taken by the visitor in the picker.
C26_PickerInputStep == PickerInput(Days, DURATION_OPTIONS, PLATFORMS)

\* C26: while status is submitting, no input of the visitor changes the date,
\* the duration, the meeting platform or the selected slot.
C26_FrozenWhileSubmitting ==
    [][ (status = "submitting" /\ C26_PickerInputStep) =>
          UNCHANGED <<selectedDate, duration, meetingPlatform, selectedSlot>> ]_vars

\* ---------------------------------------------------------------- C27

\* C27: when every backend call settles, a submission always ends (status
\* submitting leads to success or error, whatever the response or error), and
\* the loading indicator, once on, goes off.
C27_SubmissionAndFetchTerminate ==
    /\ (status = "submitting") ~> (status \in {"success", "error"})
    /\ loading ~> ~loading

\* A submission that got no response at all has ended in error with the
\* connectivity message.
C27_Witness ==
    /\ submitResponse = NoResponse
    /\ submitReq = NoReq
    /\ status = "error"
    /\ errorMessage = "Network error. Please check your connection and try again."

\* ---------------------------------------------------------------- C28

\* C28: while no submission is in flight, the submit button is enabled exactly
\* when validateForm passes, that is, when a submit attempt sends the request.
C28_EnabledIffValid ==
    status # "submitting" =>
        (~SubmitDisabled <=> validateForm(formData, appointmentSelection))

\* ---------------------------------------------------------------- C29

\* A submission in flight that carries no appointment descriptor.
C29_SentWithoutAppointment ==
    submitReq # NoReq /\ submitReq.appointment = NoAppointment

\* C29: once a date is chosen and the contact fields are valid, the visitor
\* can still get a submission sent without an appointment descriptor: a
\* visitor who keeps trying every input gets there.
C29_AppointmentStaysOptional ==
    (selectedDate # Null /\ validateForm_FieldsOnly(formData, appointmentSelection))
        ~> C29_SentWithoutAppointment

\* What holds instead: a chosen date is never cleared, in the picker or in the
\* orchestrator, and with a date chosen no step sends a submission without an
\* appointment descriptor.
C29_DateIsFinal ==
    /\ [][ selectedDate # Null => selectedDate' # Null ]_vars
    /\ [][ appointmentSelection.date # Null => appointmentSelection'.date # Null ]_vars
    /\ []( selectedDate # Null => appointmentSelection.date # Null )
    /\ [][ (C24_SendStep /\ selectedDate # Null) =>
              submitReq'.appointment # NoAppointment ]_vars

\* ---------------------------------------------------------------- C30

\* The backend outcome behind a settled submission, read from the mock's return
\* value or from the live backend's HTTP answer; "other" for answers outside
\* the four outcomes.
C30_Outcome(response, result) ==
    IF response = MockAnswer
    THEN IF result.data.success THEN "success"
         ELSE IF result.data.conflict # NoConflict
         THEN (IF result.data.conflict.reason = "slot_taken" /\ result.data.conflict.hasUpdatedSlots
               THEN "conflict"
               ELSE IF result.data.conflict.reason = "rate_limit" THEN "rate_limit"
               ELSE "other")
         ELSE IF result.data.error = "Spam detected" THEN "spam"
         ELSE "other"
    ELSE IF ~Structured(response) THEN "other"
    ELSE IF response.status = 200 /\ response.data.success THEN "success"
    ELSE IF response.status = 409 /\ response.data.conflict # NoConflict
    THEN (IF response.data.conflict.reason = "slot_taken"
             /\ response.data.conflict.hasUpdatedSlots
          THEN "conflict" ELSE "other")
    ELSE IF response.status = 429 THEN "rate_limit"
    ELSE IF response.status = 200 /\ response.data.error = "Spam detected" THEN "spam"
    ELSE "other"

\* What the form shows for an outcome: status, conflict flag, and whether a
\* slot refresh was scheduled.
C30_Reaction(outcome) ==
    IF outcome = "success" THEN <<"success", FALSE, FALSE>>
    ELSE IF outcome = "conflict" THEN <<"error", TRUE, TRUE>>
    ELSE <<"error", FALSE, FALSE>>

\* C30: for each of the four backend outcomes the form reaches the same
\* status, conflict flag and scheduled refresh with the mock client as with
\* the live client.
C30_MockLikeLive ==
    [][ (SettledStep /\ C30_Outcome(submitResponse', submitResult') # "other") =>
          <<status', conflictError', timers' > timers>>
              = C30_Reaction(C30_Outcome(submitResponse', submitResult')) ]_vars

\* The same, for the live client alone.
C30_LiveReaction ==
    [][ (SettledStep /\ ~useMock /\ C30_Outcome(submitResponse', submitResult') # "other") =>
          <<status', conflictError', timers' > timers>>
              = C30_Reaction(C30_Outcome(submitResponse', submitResult')) ]_vars

====
